---- MODULE Spec2Model ----
(***************************************************************************)
(* Model of the sensor platform API (app/main.py, app/models.py,           *)
(* app/schemas.py, app/db.py): the device/sensor upserts, the batch ingest *)
(* of readings with its background chart refresh, the chart query and the  *)
(* paginated export, over the relational store they share, and the life of *)
(* the module-level connection pool.                                       *)
(*                                                                         *)
(* Every request runs as its own task: it enters the handler, suspends on  *)
(* `async with acquire()` until it holds a connection, then sends one SQL  *)
(* statement that the store executes atomically.                           *)
(***************************************************************************)
EXTENDS Integers, Sequences, FiniteSets, TLC

VARIABLES
    dispositivos,       \* rows of sensor.dispositivos
    dispositivos_seq,   \* last value handed out by the dispositivoid sequence
    sensores,           \* rows of sensor.sensores
    sensores_seq,       \* last value handed out by the sensorid sequence
    lecturas,           \* rows of sensor.Lecturas
    lecturas_seq,       \* last value handed out by the lecturaid sequence
    pc,                 \* per request task: "idle", "conn" (holds a connection), "done"
    req,                \* per request task: the request being served
    res,                \* per request task: the response of the last request
    tasks,              \* per request task: the background task added to its response
    now,                \* the wall clock, in minutes
    DATABASE_URL,       \* db.DATABASE_URL: TRUE when the environment defines it
    pool,               \* db.pool: 0 for None, else the pool it refers to
    pools,              \* the pools asyncpg.create_pool has returned so far
    closed,             \* the pools on which close() has completed
    dbtask              \* per task of db.py: its position and its local variables

\* the state of db.py
dbvars == <<DATABASE_URL, pool, pools, closed, dbtask>>

vars == <<dispositivos, dispositivos_seq, sensores, sensores_seq, lecturas,
          lecturas_seq, pc, req, res, tasks, now, DATABASE_URL, pool, pools, closed,
          dbtask>>

----------------------------------------------------------------------------
(* Bounds *)

MaxIds == 3              \* cap of the values drawn from the id sequences, all together

MaxBatch == 2            \* longest batch of readings a request carries
MaxLecturaId == 4        \* cap of the lecturaid sequence
ClockTicks == 1          \* minutes the clock advances while the model runs
MaxPools == 2            \* pools the server lets be created; later create_pool calls fail

\* the concurrent request tasks
Clients == {"c1", "c2"}

----------------------------------------------------------------------------
(* Python values *)

\* Optional[T]: None, or a present value
None == <<>>
Some(x) == <<x>>

NoReq == [op |-> "none"]
NoRes == [kind |-> "none"]
NoTask == [state |-> "none"]

\* a successful JSON response body carrying a generated id
OkId(id) == [kind |-> "ok", id |-> id]
\* an exception that reaches the framework, or an HTTPException
Failure(status, error) == [kind |-> "error", status |-> status, error |-> error]

\* outcome of one statement sent to the store
StmtOk(tbl, seq, val) == [ok |-> TRUE, tbl |-> tbl, seq |-> seq, val |-> val]
StmtError(tbl, seq, error) == [ok |-> FALSE, tbl |-> tbl, seq |-> seq, error |-> error]

----------------------------------------------------------------------------
(* Request payloads (schemas.py) *)

Series == {"S1", "S2"}

\* DeviceCreate without its key: nombre is required, the rest default to None
DeviceFields ==
    { [nombre |-> "estacion", ubicacion |-> None, tipo |-> None,
       firmware |-> None, configuracion |-> None],
      [nombre |-> "estacion-b", ubicacion |-> Some("patio"), tipo |-> Some("esp32"),
       firmware |-> Some("1.1"), configuracion |-> Some("{intervalo: 5}")] }

DeviceCreate == [op : {"create_device"}, serie : Series, campos : DeviceFields]

\* the JSON bodies sent to POST /devices: serie and nombre missing, empty or filled in
DeviceBodies ==
    [serie : {None, Some(""), Some("S1")}, nombre : {None, Some(""), Some("estacion")}]

\* DeviceCreate built from a body: serie and nombre are required and typed str, with no
\* constraint on their length; the other fields default to None
ParseDeviceCreate(body) ==
    IF body.serie = None \/ body.nombre = None
    THEN [ok |-> FALSE, error |-> "RequestValidationError"]
    ELSE [ok |-> TRUE,
          val |-> [op |-> "create_device", serie |-> body.serie[1],
                   campos |-> [nombre |-> body.nombre[1], ubicacion |-> None,
                               tipo |-> None, firmware |-> None,
                               configuracion |-> None]]]

\* codigosensor: Optional[str] = None
Codigos == {None, Some("T1")}

\* SensorCreate without its key: factorescala and desplazamiento default to 1.0 and 0.0
SensorFields ==
    { [nombre |-> "temp", unidad |-> "K", factorescala |-> 1, desplazamiento |-> 0,
       rangomin |-> None, rangomax |-> None],
      [nombre |-> "temp", unidad |-> "C", factorescala |-> 2, desplazamiento |-> 1,
       rangomin |-> Some(0), rangomax |-> Some(50)] }

SensorCreate == [op : {"create_sensor"}, dispositivoid : 1..2, codigosensor : Codigos,
                 campos : SensorFields]

\* LecturaCreate: its fields are dispositivoid, sensorid, fechahora, temperatura, humedad
\* and calidad (default 1). The second shares its key with the first; the last names a
\* sensor that does not exist.
LecturaCreate ==
    { [dispositivoid |-> 1, sensorid |-> 1, fechahora |-> 550,
       temperatura |-> Some(21), humedad |-> None, calidad |-> 1],
      [dispositivoid |-> 1, sensorid |-> 1, fechahora |-> 550,
       temperatura |-> Some(30), humedad |-> None, calidad |-> 0],
      [dispositivoid |-> 1, sensorid |-> 3, fechahora |-> 550,
       temperatura |-> Some(21), humedad |-> None, calidad |-> 1] }

\* List[LecturaCreate]
Batches == UNION { [1..n -> LecturaCreate] : n \in 0..MaxBatch }

InsertBatch == [op : {"insert_lecturas_batch"}, lecturas : Batches]

\* GET /export/lecturas?limit=..&offset=..
ExportRequest == [op : {"export_lecturas"}, limit : {1, 2, 4}, offset : {0, 2}]

\* the arguments of models.get_chart_data; "mes" is a bucket the procedure rejects
ChartRequest ==
    { [op |-> "get_chart_data", dispositivoid |-> f[1], sensornombre |-> f[2],
       rango |-> r, bucket |-> b] :
         f \in {<<None, None>>, <<None, Some("hum")>>, <<Some(2), None>>},
         r \in {<<540, 660>>, <<550, 605>>},
         b \in {"hour", "day", "mes"} }

----------------------------------------------------------------------------
(* The store: sensor.dispositivos *)

DispositivoRow(id, serie, campos) ==
    [dispositivoid |-> id, serie |-> serie, campos |-> campos]

\* a lookup that finds no row, as a stale existence check does in a race
ConflictoSerieStale(tbl, serie) == {}

\* the rows that conflict with a proposed serie on the unique index of serie
ConflictoSerie(tbl, serie) == { r \in tbl : r.serie = serie }

\* the statement with DO NOTHING in place of DO UPDATE: the stored row keeps its values
UpsertDispositivoKeepsOld(tbl, seq, serie, campos) ==
    LET id == seq + 1
        old == { r \in tbl : r.serie = serie }
    IN  IF old = {}
        THEN StmtOk(tbl \cup {[dispositivoid |-> id, serie |-> serie, campos |-> campos]},
                    id, id)
        ELSE StmtOk(tbl, id, (CHOOSE x \in old : TRUE).dispositivoid)

\* INSERT .. ON CONFLICT (serie) DO UPDATE SET .. RETURNING dispositivoid, as one
\* atomic statement: the default of dispositivoid is drawn before the conflict is
\* detected, so the sequence advances on both branches.
UpsertDispositivoStmt(tbl, seq, serie, campos) ==
    LET id == seq + 1
        old == ConflictoSerie(tbl, serie)
    IN  IF old = {}
        THEN StmtOk(tbl \cup {DispositivoRow(id, serie, campos)}, id, id)
        ELSE LET r == CHOOSE x \in old : TRUE
             IN  StmtOk((tbl \ {r}) \cup {DispositivoRow(r.dispositivoid, serie, campos)},
                        id, r.dispositivoid)

\* models.upsert_dispositivo: the id of the returned row, or the exception raised
upsert_dispositivo(tbl, seq, serie, campos, fails) ==
    IF fails
    THEN StmtError(tbl, seq, "ConnectionDoesNotExistError")
    ELSE UpsertDispositivoStmt(tbl, seq, serie, campos)

\* main.create_device: any exception becomes HTTP 500
create_device(out) ==
    IF out.ok THEN OkId(out.val) ELSE Failure(500, out.error)

----------------------------------------------------------------------------
(* The store: sensor.sensores *)

SensorRow(id, dispositivoid, codigosensor, campos) ==
    [sensorid |-> id, dispositivoid |-> dispositivoid, codigosensor |-> codigosensor,
     campos |-> campos]

\* the conflict test with NULL = NULL taken as true
ConflictoSensorNullEq(tbl, dispositivoid, codigosensor) ==
    { r \in tbl : /\ r.codigosensor = codigosensor
                  /\ r.dispositivoid = dispositivoid }

\* the rows that conflict with a proposed (codigosensor, dispositivoid) on the unique
\* index the ON CONFLICT target names: a NULL codigosensor equals nothing, itself
\* included, so it conflicts with no row
ConflictoSensor(tbl, dispositivoid, codigosensor) ==
    { r \in tbl : /\ codigosensor # None
                  /\ r.codigosensor = codigosensor
                  /\ r.dispositivoid = dispositivoid }

\* the foreign key sensores.dispositivoid -> dispositivos
DispositivoExiste(dispositivoid) ==
    \E d \in dispositivos : d.dispositivoid = dispositivoid

\* the statement with unidad missing from the SET list
UpsertSensorKeepsUnidad(tbl, seq, dispositivoid, codigosensor, campos) ==
    LET id == seq + 1
        old == { r \in tbl : /\ codigosensor # None
                             /\ r.codigosensor = codigosensor
                             /\ r.dispositivoid = dispositivoid }
    IN  IF ~(\E d \in dispositivos : d.dispositivoid = dispositivoid)
        THEN StmtError(tbl, id, "ForeignKeyViolationError")
        ELSE IF old = {}
        THEN StmtOk(tbl \cup {[sensorid |-> id, dispositivoid |-> dispositivoid,
                               codigosensor |-> codigosensor, campos |-> campos]}, id, id)
        ELSE LET r == CHOOSE x \in old : TRUE
             IN  StmtOk((tbl \ {r}) \cup
                          {[r EXCEPT !.campos = [campos EXCEPT !.unidad = r.campos.unidad]]},
                        id, r.sensorid)

\* INSERT .. ON CONFLICT (codigosensor, dispositivoid) DO UPDATE SET .. RETURNING
\* sensorid, as one atomic statement
UpsertSensorStmt(tbl, seq, dispositivoid, codigosensor, campos) ==
    LET id == seq + 1
        old == ConflictoSensor(tbl, dispositivoid, codigosensor)
    IN  IF ~DispositivoExiste(dispositivoid)
        THEN StmtError(tbl, id, "ForeignKeyViolationError")
        ELSE IF old = {}
        THEN StmtOk(tbl \cup {SensorRow(id, dispositivoid, codigosensor, campos)}, id, id)
        ELSE LET r == CHOOSE x \in old : TRUE
             IN  StmtOk((tbl \ {r}) \cup
                          {SensorRow(r.sensorid, dispositivoid, codigosensor, campos)},
                        id, r.sensorid)

\* models.upsert_sensor: the id of the returned row, or the exception raised
upsert_sensor(tbl, seq, dispositivoid, codigosensor, campos, fails) ==
    IF fails
    THEN StmtError(tbl, seq, "ConnectionDoesNotExistError")
    ELSE UpsertSensorStmt(tbl, seq, dispositivoid, codigosensor, campos)

\* main.create_sensor: no handler of its own, an exception is the framework's 500
create_sensor(out) ==
    IF out.ok THEN [kind |-> "ok", id |-> out.val] ELSE Failure(500, out.error)

----------------------------------------------------------------------------
(* The store: sensor.Lecturas, and the queries over it *)

LecturaRow(id, dispositivoid, sensorid, fechahora, valor, calidad) ==
    [lecturaid |-> id, dispositivoid |-> dispositivoid, sensorid |-> sensorid,
     fechahora |-> fechahora, valor |-> valor, calidad |-> calidad]

\* timedelta(days=1), in minutes
Day == 1440

\* the bucket widths of sensor.sp_getchartdata, in minutes, for the buckets whose
\* windows are fixed-width and anchored at the epoch (minute 0 is a Monday, 00:00 UTC)
BucketWidth(bucket) ==
    CASE bucket = "minute" -> 1
      [] bucket = "hour"   -> 60
      [] bucket = "day"    -> Day
      [] bucket = "week"   -> 7 * Day

ValidBuckets == {"minute", "hour", "day", "week"}

\* truncate a timestamp to the start of its window
DateTrunc(bucket, t) == t - (t % BucketWidth(bucket))

\* nombre of the sensor a reading belongs to
SensorNombre(sensorid) ==
    (CHOOSE x \in sensores : x.sensorid = sensorid).campos.nombre

\* the readings the chart query selects: fechahora in [desde, hasta), the device when
\* one is given, the sensors of the given name when one is given
ChartMatches(tbl, dispositivoid, sensornombre, desde, hasta) ==
    { l \in tbl :
        /\ desde <= l.fechahora /\ l.fechahora < hasta
        /\ dispositivoid = None \/ Some(l.dispositivoid) = dispositivoid
        /\ sensornombre = None \/ Some(SensorNombre(l.sensorid)) = sensornombre }

\* order of the chart rows: bucket_start, then dispositivoid, then sensorid
ChartBefore(a, b) ==
    \/ a.bucket_start < b.bucket_start
    \/ /\ a.bucket_start = b.bucket_start
       /\ \/ a.dispositivoid < b.dispositivoid
          \/ a.dispositivoid = b.dispositivoid /\ a.sensorid < b.sensorid

RECURSIVE SortChart(_)
\* the chart rows as a sequence in that order
SortChart(S) ==
    IF S = {}
    THEN <<>>
    ELSE LET m == CHOOSE x \in S : \A y \in S \ {x} : ChartBefore(x, y)
         IN  <<m>> \o SortChart(S \ {m})

RECURSIVE SumValor(_)
SumValor(S) ==
    IF S = {}
    THEN 0
    ELSE LET l == CHOOSE x \in S : TRUE IN l.valor + SumValor(S \ {l})

\* one aggregate of a non-empty group of readings
ChartBucket(bucket_start, dispositivoid, sensorid, group) ==
    [bucket_start |-> bucket_start, dispositivoid |-> dispositivoid,
     sensorid |-> sensorid,
     count |-> Cardinality(group),
     suma |-> SumValor(group),
     minimo |-> CHOOSE v \in { l.valor : l \in group } :
                   \A l \in group : v <= l.valor,
     maximo |-> CHOOSE v \in { l.valor : l \in group } :
                   \A l \in group : v >= l.valor]

\* sensor.sp_getchartdata($1,$2,$3,$4,$5): GROUP BY window, device and sensor over the
\* matching readings, ORDER BY bucket_start, device, sensor
sp_getchartdata(tbl, dispositivoid, sensornombre, desde, hasta, bucket) ==
    IF bucket \notin ValidBuckets
    THEN StmtError(tbl, 0, "ValidationError")
    ELSE LET sel == ChartMatches(tbl, dispositivoid, sensornombre, desde, hasta)
             groups == { <<DateTrunc(bucket, l.fechahora), l.dispositivoid, l.sensorid>> :
                            l \in sel }
             agg == { ChartBucket(g[1], g[2], g[3],
                         { l \in sel : /\ DateTrunc(bucket, l.fechahora) = g[1]
                                       /\ l.dispositivoid = g[2]
                                       /\ l.sensorid = g[3] }) : g \in groups }
         IN  StmtOk(tbl, 0, SortChart(agg))

\* the call with the bucket argument left out of the query, so that 'hour' is used
GetChartDataBucketDropped(tbl, dispositivoid, sensornombre, desde, hasta, bucket, fails) ==
    IF fails
    THEN StmtError(tbl, 0, "ConnectionDoesNotExistError")
    ELSE sp_getchartdata(tbl, dispositivoid, sensornombre, desde, hasta, "hour")

\* models.get_chart_data: the rows of the procedure as a list of dicts, in its order
get_chart_data(tbl, dispositivoid, sensornombre, desde, hasta, bucket, fails) ==
    IF fails
    THEN StmtError(tbl, 0, "ConnectionDoesNotExistError")
    ELSE sp_getchartdata(tbl, dispositivoid, sensornombre, desde, hasta, bucket)

----------------------------------------------------------------------------
(* GET /export/lecturas *)

RECURSIVE OrdersByFechaDesc(_)
\* every order in which the store may return the rows under ORDER BY FechaHora DESC:
\* rows of equal FechaHora come in any order
OrdersByFechaDesc(S) ==
    IF S = {}
    THEN {<<>>}
    ELSE UNION { { <<m>> \o t : t \in OrdersByFechaDesc(S \ {m}) } :
                   m \in { x \in S : \A y \in S : x.fechahora >= y.fechahora } }

\* LIMIT $1 OFFSET $2 over the ordered rows
LimitOffset(rows, limit, offset) ==
    SubSeq(rows, offset + 1, IF offset + limit < Len(rows) THEN offset + limit ELSE Len(rows))

\* models.export_lecturas: the page of rows, as the store ordered them
models_export_lecturas(ordered, limit, offset, fails) ==
    IF fails
    THEN StmtError({}, 0, "ConnectionDoesNotExistError")
    ELSE StmtOk({}, 0, LimitOffset(ordered, limit, offset))

\* one line of the CSV body
CsvRow(r) == <<r.lecturaid, r.fechahora, r.valor, r.calidad, r.dispositivoid, r.sensorid>>

CsvHeader == <<"LecturaID", "FechaHora", "Valor", "Calidad", "DispositivoID", "SensorID">>

\* main.export_lecturas: the header line, then one line per row, in the rows' order
export_lecturas(out) ==
    IF out.ok
    THEN [kind |-> "ok", header |-> CsvHeader,
          rows |-> [i \in 1..Len(out.val) |-> CsvRow(out.val[i])]]
    ELSE Failure(500, out.error)

----------------------------------------------------------------------------
(* POST /lecturas/batch *)

\* whether a pydantic model instance has the attribute
HasAttr(item, name) == name \in DOMAIN item

\* the argument list of executemany, built by the list comprehension before the call:
\* reading an attribute the model class does not declare raises AttributeError
LecturaArgs(batch) ==
    IF \E i \in 1..Len(batch) : \E a \in {"dispositivoid", "sensorid", "fechahora",
                                          "valor", "calidad"} : ~HasAttr(batch[i], a)
    THEN [ok |-> FALSE, error |-> "AttributeError"]
    ELSE [ok |-> TRUE,
          val |-> [i \in 1..Len(batch) |->
                     <<batch[i].dispositivoid, batch[i].sensorid, batch[i].fechahora,
                       batch[i].valor, batch[i].calidad, None>>]]

\* the foreign keys Lecturas.DispositivoID -> dispositivos, Lecturas.SensorID -> sensores
LecturaFK(dispositivoid, sensorid) ==
    /\ \E d \in dispositivos : d.dispositivoid = dispositivoid
    /\ \E x \in sensores : x.sensorid = sensorid

\* the rows that conflict with a proposed (DispositivoID, SensorID, FechaHora)
ConflictoLectura(tbl, dispositivoid, sensorid, fechahora) ==
    { r \in tbl : /\ r.dispositivoid = dispositivoid
                  /\ r.sensorid = sensorid
                  /\ r.fechahora = fechahora }

\* INSERT .. ON CONFLICT (DispositivoID, SensorID, FechaHora) DO NOTHING, for one
\* argument tuple
InsertLecturaStmt(tbl, seq, a) ==
    LET id == seq + 1
    IN  IF ~LecturaFK(a[1], a[2])
        THEN StmtError(tbl, id, "ForeignKeyViolationError")
        ELSE IF ConflictoLectura(tbl, a[1], a[2], a[3]) # {}
        THEN StmtOk(tbl, id, 0)
        ELSE StmtOk(tbl \cup {LecturaRow(id, a[1], a[2], a[3], a[4], a[5])}, id, 1)

RECURSIVE ExecuteManyFrom(_, _, _, _)
\* the statement for the argument tuples from the i-th on, stopping at the first error
ExecuteManyFrom(tbl, seq, args, i) ==
    IF i > Len(args)
    THEN StmtOk(tbl, seq, 0)
    ELSE LET one == InsertLecturaStmt(tbl, seq, args[i])
         IN  IF one.ok
             THEN ExecuteManyFrom(one.tbl, one.seq, args, i + 1)
             ELSE one

\* conn.executemany: all the tuples in one implicit transaction, rolled back as a
\* whole when one of them fails (the sequence values drawn are not given back)
executemany(tbl, seq, args) ==
    LET out == ExecuteManyFrom(tbl, seq, args, 1)
    IN  IF out.ok THEN out ELSE StmtError(tbl, out.seq, out.error)

\* the body of `async with acquire() as conn` in insert_lecturas_batch
InsertLecturasStore(tbl, seq, batch, fails) ==
    LET args == LecturaArgs(batch)
    IN  IF ~args.ok
        THEN StmtError(tbl, seq, args.error)
        ELSE IF fails
        THEN StmtError(tbl, seq, "ConnectionDoesNotExistError")
        ELSE executemany(tbl, seq, args.val)

\* the response of insert_lecturas_batch: {"inserted": len(lecturas)}, or the
\* framework's 500 for the exception that left the handler
insert_lecturas_batch(out, batch) ==
    IF out.ok
    THEN [kind |-> "ok", inserted |-> Len(batch)]
    ELSE Failure(500, out.error)

\* add_task moved ahead of the insert, so that it is added whatever the insert does
RefreshTaskAlways(out, t1, t2) ==
    [state |-> "pending", dispositivoid |-> None, sensornombre |-> None,
     desde |-> t1 - Day, hasta |-> t2, bucket |-> "hour"]

\* background_tasks.add_task(models.get_chart_data, None, None, utcnow() - 1 day,
\* utcnow(), "hour"): reached only when the `async with` block has not raised
RefreshTask(out, t1, t2) ==
    IF out.ok
    THEN [state |-> "pending", dispositivoid |-> None, sensornombre |-> None,
          desde |-> t1 - Day, hasta |-> t2, bucket |-> "hour"]
    ELSE NoTask

----------------------------------------------------------------------------
(* db.py: the module-level connection pool *)

Retries == 3             \* init_db_pool(retries=3)
Delay == 2               \* init_db_pool(delay=2), in seconds

\* the tasks that call into db.py: the startup hook, two requests, the shutdown hook
DbTasks == {"startup", "r1", "r2", "shutdown"}

\* the function of db.py each task calls
DbCall(t) ==
    CASE t = "startup" -> "init_db_pool"
      [] t = "shutdown" -> "close_db_pool"
      [] OTHER -> "acquire"

\* `pool = None`
NoPool == 0

\* a task that has not called yet: attempt is the loop variable of init_db_pool, slept
\* the seconds spent in asyncio.sleep, ref the pool object the task is awaiting on, exc
\* the exception caught or raised last
DbIdle == [pc |-> "idle", attempt |-> 0, slept |-> 0, ref |-> NoPool, exc |-> "none"]

\* the mutation of RetryAgain that also sleeps after the last attempt
RetryAgainAlways(attempt, retries) == attempt < retries

\* `if attempt < retries - 1` of the except branch
RetryAgain(attempt, retries) == attempt < retries - 1

\* the except branch of init_db_pool, entered with exception err
Except(d, err) ==
    IF RetryAgain(d.attempt, Retries)
    THEN [d EXCEPT !.pc = "sleep", !.exc = err]
    ELSE [d EXCEPT !.pc = "init_raised", !.exc = err]

\* `async with pool.acquire()` of acquire(): the global is read when the call is made
PoolAcquireCall(d) ==
    IF pool = NoPool
    THEN [d EXCEPT !.pc = "acquire_raised", !.exc = "AttributeError"]
    ELSE [d EXCEPT !.pc = "pool_acquire", !.ref = pool, !.exc = "none"]

\* init_db_pool returns to its caller, which runs on without suspending
InitReturns(t, d) ==
    IF DbCall(t) = "acquire" THEN PoolAcquireCall(d)
    ELSE [d EXCEPT !.pc = "returned", !.exc = "none"]

\* init_db_pool from its first line to its first await
init_db_pool(t, d) ==
    IF ~DATABASE_URL THEN [d EXCEPT !.pc = "init_raised", !.exc = "RuntimeError"]
    ELSE IF pool # NoPool THEN InitReturns(t, d)
    ELSE [d EXCEPT !.pc = "create", !.attempt = 0]

\* the request state, which db.py leaves alone
appvars == <<dispositivos, dispositivos_seq, sensores, sensores_seq, lecturas,
             lecturas_seq, pc, req, res, tasks, now>>

\* startup() awaits init_db_pool()
Startup(t) ==
    /\ DbCall(t) = "init_db_pool"
    /\ dbtask[t].pc = "idle"
    /\ dbtask' = [dbtask EXCEPT ![t] = init_db_pool(t, @)]
    /\ UNCHANGED <<DATABASE_URL, pool, pools, closed>>
    /\ UNCHANGED appvars

\* a request enters acquire(): a missing pool is initialised on the spot
Acquire(t) ==
    /\ DbCall(t) = "acquire"
    /\ dbtask[t].pc = "idle"
    /\ dbtask' = [dbtask EXCEPT ![t] = IF pool = NoPool THEN init_db_pool(t, @)
                                       ELSE PoolAcquireCall(@)]
    /\ UNCHANGED <<DATABASE_URL, pool, pools, closed>>
    /\ UNCHANGED appvars

\* `pool = await asyncpg.create_pool(..)` completes: with a new pool, which is assigned
\* to the global and on which the smoke test is started, or with an exception
CreatePool(t) ==
    /\ dbtask[t].pc = "create"
    /\ \E fails \in IF Cardinality(pools) < MaxPools THEN BOOLEAN ELSE {TRUE} :
          IF fails
          THEN /\ dbtask' = [dbtask EXCEPT ![t] = Except(@, "OSError")]
               /\ UNCHANGED <<pool, pools>>
          ELSE LET new == Cardinality(pools) + 1 IN
               /\ pools' = pools \cup {new}
               /\ pool' = new
               /\ dbtask' = [dbtask EXCEPT ![t] = [@ EXCEPT !.pc = "smoke", !.ref = new]]
    /\ UNCHANGED <<DATABASE_URL, closed>>
    /\ UNCHANGED appvars

\* the smoke test (acquire, fetchval, release) on the pool just created completes
SmokeTest(t) ==
    /\ dbtask[t].pc = "smoke"
    /\ \E fails \in BOOLEAN :
          dbtask' = [dbtask EXCEPT ![t] =
                        IF dbtask[t].ref \in closed THEN Except(@, "InterfaceError")
                        ELSE IF fails THEN Except(@, "PostgresError")
                        ELSE InitReturns(t, @)]
    /\ UNCHANGED <<DATABASE_URL, pool, pools, closed>>
    /\ UNCHANGED appvars

\* `await asyncio.sleep(delay)` completes and the loop moves on; a loop that has run
\* out of attempts ends and init_db_pool returns
Sleep(t) ==
    /\ dbtask[t].pc = "sleep"
    /\ dbtask' = [dbtask EXCEPT ![t] =
                     IF @.attempt + 1 < Retries
                     THEN [@ EXCEPT !.pc = "create", !.attempt = @ + 1, !.slept = @ + Delay]
                     ELSE InitReturns(t, [@ EXCEPT !.slept = @ + Delay])]
    /\ UNCHANGED <<DATABASE_URL, pool, pools, closed>>
    /\ UNCHANGED appvars

\* acquire(): the pool hands out a connection, or refuses
PoolAcquire(t) ==
    /\ dbtask[t].pc = "pool_acquire"
    /\ \E fails \in BOOLEAN :
          dbtask' = [dbtask EXCEPT ![t] =
                        IF dbtask[t].ref \in closed
                        THEN [@ EXCEPT !.pc = "acquire_raised", !.exc = "InterfaceError"]
                        ELSE IF fails
                        THEN [@ EXCEPT !.pc = "acquire_raised", !.exc = "PostgresError"]
                        ELSE [@ EXCEPT !.pc = "returned"]]
    /\ UNCHANGED <<DATABASE_URL, pool, pools, closed>>
    /\ UNCHANGED appvars

\* close_db_pool() up to `await pool.close()`
CloseBegin(t) ==
    /\ DbCall(t) = "close_db_pool"
    /\ dbtask[t].pc = "idle"
    /\ dbtask' = [dbtask EXCEPT ![t] = IF pool = NoPool THEN [@ EXCEPT !.pc = "returned"]
                                       ELSE [@ EXCEPT !.pc = "closing", !.ref = pool]]
    /\ UNCHANGED <<DATABASE_URL, pool, pools, closed>>
    /\ UNCHANGED appvars

\* close_db_pool(): pool.close() completes and `pool = None` runs
CloseEnd(t) ==
    /\ dbtask[t].pc = "closing"
    /\ closed' = closed \cup {dbtask[t].ref}
    /\ pool' = NoPool
    /\ dbtask' = [dbtask EXCEPT ![t] = [@ EXCEPT !.pc = "returned"]]
    /\ UNCHANGED <<DATABASE_URL, pools>>
    /\ UNCHANGED appvars

\* the pool of a service whose startup hook has run init_db_pool once, at the first try
PoolServing ==
    /\ DATABASE_URL = TRUE
    /\ pool = 1
    /\ pools = {1}
    /\ closed = {}
    /\ dbtask = [t \in DbTasks |-> IF t = "startup" THEN [DbIdle EXCEPT !.pc = "returned",
                                                                         !.ref = 1]
                                   ELSE DbIdle]

----------------------------------------------------------------------------
(* Initial state: an empty store, no request in flight *)

Init ==
    /\ dispositivos = {}
    /\ dispositivos_seq = 0
    /\ sensores = {}
    /\ sensores_seq = 0
    /\ lecturas = {}
    /\ lecturas_seq = 0
    /\ pc = [p \in Clients |-> "idle"]
    /\ req = [p \in Clients |-> NoReq]
    /\ res = [p \in Clients |-> NoRes]
    /\ tasks = [p \in Clients |-> NoTask]
    /\ now = 0
    /\ PoolServing

\* the sequence values drawn so far plus those the requests in flight may draw
IdsDrawn ==
    dispositivos_seq + sensores_seq
      + Cardinality({ p \in Clients : /\ pc[p] = "conn"
                                      /\ req[p].op \in {"create_device", "create_sensor"} })

\* a request enters its handler and suspends in `async with acquire()`
Enter(p, r) ==
    /\ pc[p] \in {"idle", "done"}
    /\ tasks[p].state # "pending"
    /\ tasks' = [tasks EXCEPT ![p] = NoTask]
    /\ pc' = [pc EXCEPT ![p] = "conn"]
    /\ req' = [req EXCEPT ![p] = r]
    /\ res' = [res EXCEPT ![p] = NoRes]

\* POST /devices arrives
CallCreateDevice(p) ==
    /\ IdsDrawn < MaxIds
    /\ \E r \in DeviceCreate : Enter(p, r)
    /\ UNCHANGED dbvars
    /\ UNCHANGED <<dispositivos, dispositivos_seq, sensores, sensores_seq, lecturas,
                   lecturas_seq, now>>

\* POST /devices: the statement runs and the handler returns
ExecCreateDevice(p) ==
    /\ pc[p] = "conn"
    /\ req[p].op = "create_device"
    /\ \E fails \in BOOLEAN :
          LET out == upsert_dispositivo(dispositivos, dispositivos_seq,
                                        req[p].serie, req[p].campos, fails)
          IN  /\ dispositivos' = out.tbl
              /\ dispositivos_seq' = out.seq
              /\ res' = [res EXCEPT ![p] = create_device(out)]
    /\ pc' = [pc EXCEPT ![p] = "done"]
    /\ UNCHANGED dbvars
    /\ UNCHANGED <<sensores, sensores_seq, lecturas, lecturas_seq, req, tasks, now>>

\* POST /sensors arrives
CallCreateSensor(p) ==
    /\ IdsDrawn < MaxIds
    /\ \E r \in SensorCreate : Enter(p, r)
    /\ UNCHANGED dbvars
    /\ UNCHANGED <<dispositivos, dispositivos_seq, sensores, sensores_seq, lecturas,
                   lecturas_seq, now>>

\* POST /sensors: the statement runs and the handler returns
ExecCreateSensor(p) ==
    /\ pc[p] = "conn"
    /\ req[p].op = "create_sensor"
    /\ \E fails \in BOOLEAN :
          LET out == upsert_sensor(sensores, sensores_seq, req[p].dispositivoid,
                                   req[p].codigosensor, req[p].campos, fails)
          IN  /\ sensores' = out.tbl
              /\ sensores_seq' = out.seq
              /\ res' = [res EXCEPT ![p] = create_sensor(out)]
    /\ pc' = [pc EXCEPT ![p] = "done"]
    /\ UNCHANGED dbvars
    /\ UNCHANGED <<dispositivos, dispositivos_seq, lecturas, lecturas_seq, req, tasks, now>>

Next ==
    \E p \in Clients :
        \/ CallCreateDevice(p)
        \/ ExecCreateDevice(p)
        \/ CallCreateSensor(p)
        \/ ExecCreateSensor(p)

Spec == Init /\ [][Next]_vars

----------------------------------------------------------------------------
(* POST /devices, from the request body on *)

\* POST /devices with a body that DeviceCreate does not accept: the framework answers
\* 422 and create_device is not entered
RejectDeviceBody(p) ==
    /\ pc[p] \in {"idle", "done"}
    /\ \E body \in DeviceBodies :
          /\ ~ParseDeviceCreate(body).ok
          /\ req' = [req EXCEPT ![p] = [op |-> "post_devices", body |-> body]]
          /\ res' = [res EXCEPT ![p] = Failure(422, ParseDeviceCreate(body).error)]
    /\ pc' = [pc EXCEPT ![p] = "done"]
    /\ UNCHANGED dbvars
    /\ UNCHANGED <<dispositivos, dispositivos_seq, sensores, sensores_seq, lecturas,
                   lecturas_seq, tasks, now>>

\* POST /devices with a body that DeviceCreate accepts: create_device is entered
CallCreateDeviceBody(p) ==
    /\ IdsDrawn < MaxIds
    /\ \E body \in DeviceBodies :
          /\ ParseDeviceCreate(body).ok
          /\ Enter(p, ParseDeviceCreate(body).val)
    /\ UNCHANGED dbvars
    /\ UNCHANGED <<dispositivos, dispositivos_seq, sensores, sensores_seq, lecturas,
                   lecturas_seq, now>>

NextDevices ==
    \E p \in Clients :
        \/ RejectDeviceBody(p)
        \/ CallCreateDeviceBody(p)
        \/ ExecCreateDevice(p)

SpecDevices == Init /\ [][NextDevices]_vars

----------------------------------------------------------------------------
(* The ingest of readings, over a store that already holds a device and its sensors *)

\* the store after one create_device and two create_sensor calls, holding the
\* readings L written to it before the service started
InitStored(L) ==
    /\ dispositivos = {DispositivoRow(1, "S1", CHOOSE c \in DeviceFields : c.nombre = "estacion")}
    /\ dispositivos_seq = 1
    /\ sensores = {SensorRow(1, 1, Some("T1"), CHOOSE c \in SensorFields : c.unidad = "C"),
                   SensorRow(2, 1, None, [nombre |-> "hum", unidad |-> "%",
                                          factorescala |-> 1, desplazamiento |-> 0,
                                          rangomin |-> None, rangomax |-> None])}
    /\ sensores_seq = 2
    /\ lecturas = L
    /\ lecturas_seq = IF L = {} THEN 0
                      ELSE CHOOSE n \in { r.lecturaid : r \in L } :
                              \A r \in L : r.lecturaid <= n
    /\ pc = [p \in Clients |-> "idle"]
    /\ req = [p \in Clients |-> NoReq]
    /\ res = [p \in Clients |-> NoRes]
    /\ tasks = [p \in Clients |-> NoTask]
    /\ now = 610
    /\ PoolServing

InitIngest ==
    \E L \in { {}, {LecturaRow(1, 1, 1, 550, 21, 1)} } : InitStored(L)

\* POST /lecturas/batch arrives
CallInsertBatch(p) ==
    /\ lecturas_seq < MaxLecturaId
    /\ \E r \in InsertBatch : Enter(p, r)
    /\ UNCHANGED dbvars
    /\ UNCHANGED <<dispositivos, dispositivos_seq, sensores, sensores_seq, lecturas,
                   lecturas_seq, now>>

\* POST /lecturas/batch: the argument list is built, executemany runs, the refresh is
\* added to the response's background tasks and the handler returns
ExecInsertBatch(p) ==
    /\ pc[p] = "conn"
    /\ req[p].op = "insert_lecturas_batch"
    /\ \E fails \in BOOLEAN, t2 \in { t \in {now, now + 1} : t <= 610 + ClockTicks } :
          LET out == InsertLecturasStore(lecturas, lecturas_seq, req[p].lecturas, fails)
          IN  /\ lecturas' = out.tbl
              /\ lecturas_seq' = out.seq
              /\ res' = [res EXCEPT ![p] = insert_lecturas_batch(out, req[p].lecturas)]
              /\ tasks' = [tasks EXCEPT ![p] = RefreshTask(out, now, t2)]
              /\ now' = IF out.ok THEN t2 ELSE now
    /\ pc' = [pc EXCEPT ![p] = "done"]
    /\ UNCHANGED dbvars
    /\ UNCHANGED <<dispositivos, dispositivos_seq, sensores, sensores_seq, req>>

\* the response has been sent; its background task runs get_chart_data and the rows
\* it returns are dropped
RunRefresh(p) ==
    /\ pc[p] = "done"
    /\ tasks[p].state = "pending"
    /\ \E fails \in BOOLEAN :
          LET t == tasks[p]
              out == get_chart_data(lecturas, t.dispositivoid, t.sensornombre,
                                    t.desde, t.hasta, t.bucket, fails)
          IN  tasks' = [tasks EXCEPT ![p].state = IF out.ok THEN "done" ELSE "failed"]
    /\ UNCHANGED dbvars
    /\ UNCHANGED <<dispositivos, dispositivos_seq, sensores, sensores_seq, lecturas,
                   lecturas_seq, pc, req, res, now>>

\* time passes
Tick ==
    /\ now < 610 + ClockTicks
    /\ now' = now + 1
    /\ UNCHANGED dbvars
    /\ UNCHANGED <<dispositivos, dispositivos_seq, sensores, sensores_seq, lecturas,
                   lecturas_seq, pc, req, res, tasks>>

NextIngest ==
    \/ \E p \in Clients :
          \/ CallInsertBatch(p)
          \/ ExecInsertBatch(p)
          \/ RunRefresh(p)
    \/ Tick

SpecIngest == InitIngest /\ [][NextIngest]_vars

----------------------------------------------------------------------------
(* The queries, over a store that holds readings *)

\* readings of sensors 1 and 2 of device 1 between 09:10 and 11:00; two pairs of them
\* share their FechaHora
StoredLecturas ==
    { LecturaRow(1, 1, 1, 550, 21, 1), LecturaRow(2, 1, 1, 585, 22, 1),
      LecturaRow(3, 1, 1, 605, 24, 1), LecturaRow(4, 1, 2, 550, 40, 1),
      LecturaRow(5, 1, 1, 660, 25, 0), LecturaRow(6, 1, 2, 605, 45, 1) }

InitQuery == \E L \in SUBSET StoredLecturas : InitStored(L)

\* GET /export/lecturas arrives
CallExport(p) ==
    /\ \E r \in ExportRequest : Enter(p, r)
    /\ UNCHANGED dbvars
    /\ UNCHANGED <<dispositivos, dispositivos_seq, sensores, sensores_seq, lecturas,
                   lecturas_seq, now>>

\* GET /export/lecturas: the query runs and the CSV is streamed
ExecExport(p) ==
    /\ pc[p] = "conn"
    /\ req[p].op = "export_lecturas"
    /\ \E fails \in BOOLEAN, ordered \in OrdersByFechaDesc(lecturas) :
          res' = [res EXCEPT ![p] =
                    export_lecturas(models_export_lecturas(ordered, req[p].limit,
                                                           req[p].offset, fails))]
    /\ pc' = [pc EXCEPT ![p] = "done"]
    /\ UNCHANGED dbvars
    /\ UNCHANGED <<dispositivos, dispositivos_seq, sensores, sensores_seq, lecturas,
                   lecturas_seq, req, tasks, now>>

NextExport ==
    \E p \in Clients :
        \/ CallExport(p)
        \/ ExecExport(p)

SpecExport == InitQuery /\ [][NextExport]_vars

\* a caller of models.get_chart_data takes a connection
CallGetChartData(p) ==
    /\ \E r \in ChartRequest : Enter(p, r)
    /\ UNCHANGED dbvars
    /\ UNCHANGED <<dispositivos, dispositivos_seq, sensores, sensores_seq, lecturas,
                   lecturas_seq, now>>

\* models.get_chart_data returns its list of rows, or raises
ExecGetChartData(p) ==
    /\ pc[p] = "conn"
    /\ req[p].op = "get_chart_data"
    /\ \E fails \in BOOLEAN :
          LET out == get_chart_data(lecturas, req[p].dispositivoid, req[p].sensornombre,
                                    req[p].rango[1], req[p].rango[2], req[p].bucket, fails)
          IN  res' = [res EXCEPT ![p] =
                        IF out.ok THEN [kind |-> "ok", rows |-> out.val]
                        ELSE Failure(500, out.error)]
    /\ pc' = [pc EXCEPT ![p] = "done"]
    /\ UNCHANGED dbvars
    /\ UNCHANGED <<dispositivos, dispositivos_seq, sensores, sensores_seq, lecturas,
                   lecturas_seq, req, tasks, now>>

NextChart ==
    \E p \in Clients :
        \/ CallGetChartData(p)
        \/ ExecGetChartData(p)

InitChart ==
    \E L \in SUBSET { r \in StoredLecturas : r.lecturaid <= 5 } : InitStored(L)

SpecChart == InitChart /\ [][NextChart]_vars

----------------------------------------------------------------------------
(* The life of the pool: the startup hook, requests that find no pool, the shutdown hook *)

\* db.py has just been imported: no pool yet, DATABASE_URL read from the environment
InitPool ==
    /\ dispositivos = {}
    /\ dispositivos_seq = 0
    /\ sensores = {}
    /\ sensores_seq = 0
    /\ lecturas = {}
    /\ lecturas_seq = 0
    /\ pc = [p \in Clients |-> "idle"]
    /\ req = [p \in Clients |-> NoReq]
    /\ res = [p \in Clients |-> NoRes]
    /\ tasks = [p \in Clients |-> NoTask]
    /\ now = 0
    /\ DATABASE_URL \in BOOLEAN
    /\ pool = NoPool
    /\ pools = {}
    /\ closed = {}
    /\ dbtask = [t \in DbTasks |-> DbIdle]

NextPool ==
    \E t \in DbTasks :
        \/ Startup(t)
        \/ Acquire(t)
        \/ CreatePool(t)
        \/ SmokeTest(t)
        \/ Sleep(t)
        \/ PoolAcquire(t)
        \/ CloseBegin(t)
        \/ CloseEnd(t)

SpecPool == InitPool /\ [][NextPool]_vars

----------------------------------------------------------------------------
(* Properties of the identity store *)

\* request p has just been answered
Answered(p, op) == pc[p] = "conn" /\ pc'[p] = "done" /\ req[p].op = op

\* request p was answered with an id
DoneOk(p, op) == pc[p] = "done" /\ req[p].op = op /\ res[p].kind = "ok"

RowsOfSerie(tbl, serie) == { r \in tbl : r.serie = serie }

RowsOfSensorKey(tbl, dispositivoid, codigosensor) ==
    { r \in tbl : r.dispositivoid = dispositivoid /\ r.codigosensor = codigosensor }

\* C1: every upsertDevice(S, ..) that returns leaves exactly one row with serial S,
\* holding that call's name/location/type/firmware/config, and returns that row's id;
\* when a row with serial S existed before the call, it is that row's id (no new id
\* for an existing serial) and the rows of the other serials are untouched.
C1_DeviceUpsertIdempotent ==
    [][\A p \in Clients :
         (Answered(p, "create_device") /\ res'[p].kind = "ok") =>
            LET S == req[p].serie
                before == RowsOfSerie(dispositivos, S)
                after == RowsOfSerie(dispositivos', S)
            IN  /\ Cardinality(after) = 1
                /\ \A r \in after :
                      /\ r.campos = req[p].campos
                      /\ res'[p].id = r.dispositivoid
                      /\ \A o \in before : o.dispositivoid = r.dispositivoid
                      /\ before = {} => \A o \in dispositivos :
                                            o.dispositivoid # r.dispositivoid
                /\ dispositivos' \ after = dispositivos \ before]_vars

\* C1 witness: two calls with the same serial and different fields have both returned
\* the same id, and the one row holds the fields of the call that ran second.
C1_Witness ==
    /\ DoneOk("c1", "create_device") /\ DoneOk("c2", "create_device")
    /\ req["c1"].serie = req["c2"].serie
    /\ req["c1"].campos # req["c2"].campos
    /\ res["c1"].id = res["c2"].id
    /\ \E r \in dispositivos : r.serie = req["c2"].serie /\ r.campos = req["c2"].campos

\* C2: in every reachable state there is at most one row per serial and at most one
\* row per (deviceId, non-null code), and every answered upsert of a natural key
\* holds the id of the one row with that key, however the requests interleaved.
C2_UpsertRaceSafe ==
    /\ \A a, b \in dispositivos : a.serie = b.serie => a = b
    /\ \A a, b \in sensores :
          (a.codigosensor # None /\ a.codigosensor = b.codigosensor
             /\ a.dispositivoid = b.dispositivoid) => a = b
    /\ \A p \in Clients :
          /\ DoneOk(p, "create_device") =>
                \E r \in dispositivos :
                    r.serie = req[p].serie /\ r.dispositivoid = res[p].id
          /\ (DoneOk(p, "create_sensor") /\ req[p].codigosensor # None) =>
                \E r \in sensores :
                    /\ r.dispositivoid = req[p].dispositivoid
                    /\ r.codigosensor = req[p].codigosensor
                    /\ r.sensorid = res[p].id

\* C2 witness: two requests for the same (deviceId, code) were in flight together, one
\* has been answered and the other still holds its connection.
C2_Witness ==
    /\ DoneOk("c1", "create_sensor")
    /\ pc["c2"] = "conn" /\ req["c2"].op = "create_sensor"
    /\ req["c1"].codigosensor # None
    /\ req["c2"].codigosensor = req["c1"].codigosensor
    /\ req["c2"].dispositivoid = req["c1"].dispositivoid
    /\ sensores_seq = 1

\* C6: every upsertSensor(deviceId, code, ..) with a non-null code that returns leaves
\* exactly one row for (deviceId, code), holding that call's
\* name/unit/scale_factor/offset/range, and returns that row's id, which is the id of
\* the row that held the key before the call when there was one.
C6_SensorUpsertNaturalKey ==
    [][\A p \in Clients :
         (Answered(p, "create_sensor") /\ res'[p].kind = "ok"
            /\ req[p].codigosensor # None) =>
            LET before == RowsOfSensorKey(sensores, req[p].dispositivoid,
                                          req[p].codigosensor)
                after == RowsOfSensorKey(sensores', req[p].dispositivoid,
                                         req[p].codigosensor)
            IN  /\ Cardinality(after) = 1
                /\ \A r \in after :
                      /\ r.campos = req[p].campos
                      /\ res'[p].id = r.sensorid
                      /\ \A o \in before : o.sensorid = r.sensorid
                /\ sensores' \ after = sensores \ before]_vars

\* C6 witness: two calls for the same (deviceId, code) with different fields have
\* returned the same id and the one row holds the second call's unit.
C6_Witness ==
    /\ DoneOk("c1", "create_sensor") /\ DoneOk("c2", "create_sensor")
    /\ req["c1"].codigosensor # None
    /\ req["c1"].codigosensor = req["c2"].codigosensor
    /\ req["c1"].dispositivoid = req["c2"].dispositivoid
    /\ req["c1"].campos.unidad = "K" /\ req["c2"].campos.unidad = "C"
    /\ res["c1"].id = res["c2"].id
    /\ \A r \in sensores : r.campos.unidad = "C"
    /\ Cardinality(sensores) = 1

\* C7: every upsertSensor with code = null that returns adds one row under an id no
\* row had and changes no existing row, and any two answered null-code calls hold
\* distinct ids.
C7_NullCodeNeverMerged ==
    /\ [](\A p, q \in Clients :
            (p # q /\ DoneOk(p, "create_sensor") /\ DoneOk(q, "create_sensor")
               /\ req[p].codigosensor = None /\ req[q].codigosensor = None)
            => res[p].id # res[q].id)
    /\ [][\A p \in Clients :
            (Answered(p, "create_sensor") /\ res'[p].kind = "ok"
               /\ req[p].codigosensor = None) =>
               /\ \A o \in sensores : o.sensorid # res'[p].id
               /\ sensores \subseteq sensores'
               /\ Cardinality(sensores') = Cardinality(sensores) + 1
               /\ \E r \in sensores' : /\ r.sensorid = res'[p].id
                                       /\ r.codigosensor = None
                                       /\ r.dispositivoid = req[p].dispositivoid
                                       /\ r.campos = req[p].campos]_vars

\* C7 witness: two null-code calls with the same deviceId and the same fields have
\* returned, and two rows exist.
C7_Witness ==
    /\ DoneOk("c1", "create_sensor") /\ DoneOk("c2", "create_sensor")
    /\ req["c1"] = req["c2"]
    /\ req["c1"].codigosensor = None
    /\ res["c1"].id # res["c2"].id
    /\ Cardinality(sensores) = 2

----------------------------------------------------------------------------
(* Properties of the ingest *)

\* request p has been answered
Done(p, op) == pc[p] = "done" /\ req[p].op = op

\* the response reports that the connection to the store was lost
StoreLost(r) == r.kind = "error" /\ r.error = "ConnectionDoesNotExistError"

\* the natural key of a submitted reading
KeyOf(item) == <<item.dispositivoid, item.sensorid, item.fechahora>>

KeysOf(batch) == { KeyOf(batch[i]) : i \in 1..Len(batch) }

RowsOfKey(tbl, k) ==
    { r \in tbl : <<r.dispositivoid, r.sensorid, r.fechahora>> = k }

\* every reading of the batch names a device and a sensor that exist
RefsExist(batch) ==
    \A i \in 1..Len(batch) : LecturaFK(batch[i].dispositivoid, batch[i].sensorid)

\* C3: a reading key submitted twice, in one batch or in two answered calls, has
\* exactly one persisted row, and the calls that carried it succeeded (calls that lost
\* their connection to the store aside).
C3_DuplicatesSuppressed ==
    \A p, q \in Clients :
        (Done(p, "insert_lecturas_batch") /\ Done(q, "insert_lecturas_batch")
           /\ RefsExist(req[p].lecturas) /\ RefsExist(req[q].lecturas)
           /\ ~StoreLost(res[p]) /\ ~StoreLost(res[q])) =>
        \A i \in 1..Len(req[p].lecturas), j \in 1..Len(req[q].lecturas) :
            ((p # q \/ i # j) /\ KeyOf(req[p].lecturas[i]) = KeyOf(req[q].lecturas[j])) =>
                /\ res[p].kind = "ok"
                /\ res[q].kind = "ok"
                /\ Cardinality(RowsOfKey(lecturas, KeyOf(req[p].lecturas[i]))) = 1

\* C4: an insertBatch whose references exist returns, as insertedCount, the number of
\* distinct reading keys of the batch that the store did not hold before the call
\* (calls that lost their connection to the store aside).
C4_InsertedCountAccurate ==
    [][\A p \in Clients :
         (Answered(p, "insert_lecturas_batch") /\ RefsExist(req[p].lecturas)
            /\ ~StoreLost(res'[p])) =>
            /\ res'[p].kind = "ok"
            /\ res'[p].inserted =
                 Cardinality({ k \in KeysOf(req[p].lecturas) : RowsOfKey(lecturas, k) = {} })]_vars

\* C5: an insertBatch holding a reading whose device or sensor does not exist fails
\* with ForeignKeyError and leaves the persisted readings as they were (calls that lost
\* their connection to the store aside).
C5_BatchAllOrNothing ==
    [][\A p \in Clients :
         (Answered(p, "insert_lecturas_batch") /\ ~RefsExist(req[p].lecturas)
            /\ ~StoreLost(res'[p])) =>
            /\ res'[p].kind = "error"
            /\ res'[p].error = "ForeignKeyViolationError"
            /\ lecturas' = lecturas]_vars

\* C9: a refresh task exists only for an ingest that was answered with success, and
\* asks for the hour buckets of all devices and sensors over the day that precedes
\* the clock reading; once the response is out, the refresh, failed or not, changes
\* neither the response nor the persisted readings.
C9_RefreshBestEffort ==
    /\ [](\A p \in Clients :
            tasks[p].state # "none" =>
               /\ Done(p, "insert_lecturas_batch")
               /\ res[p] = [kind |-> "ok", inserted |-> Len(req[p].lecturas)]
               /\ tasks[p].bucket = "hour"
               /\ tasks[p].dispositivoid = None /\ tasks[p].sensornombre = None
               /\ tasks[p].hasta <= now
               /\ tasks[p].hasta - tasks[p].desde \in Day..(Day + 1))
    /\ [][\A p \in Clients :
            (tasks[p].state = "pending" /\ tasks'[p].state \in {"done", "failed"}) =>
               /\ res' = res
               /\ lecturas' = lecturas
               /\ pc' = pc]_vars

\* C9 witness: the refresh of an answered ingest has failed and the response still
\* reports success.
C9_Witness ==
    \E p \in Clients :
        /\ tasks[p].state = "failed"
        /\ Done(p, "insert_lecturas_batch")
        /\ res[p].kind = "ok"

----------------------------------------------------------------------------
(* Properties of the queries *)

\* the row at each absolute position of an answered export page
PageAt(p, i) == res[p].rows[i]
PagePos(p, i) == req[p].offset + i

\* the order the export is specified to have: FechaHora descending, then
\* DispositivoID and SensorID ascending (columns 2, 5 and 6 of a CSV line)
ExportBefore(a, b) ==
    \/ a[2] > b[2]
    \/ a[2] = b[2] /\ (a[5] < b[5] \/ (a[5] = b[5] /\ a[6] < b[6]))

\* C8: over unchanged data, any two answered export pages agree on the row at every
\* position they share and hold different rows at different positions (so limit=2
\* at offsets 0 and 2 are disjoint and together are the first four rows of limit=4,
\* and a repeated call returns the same rows), and every page is ordered by
\* timestamp descending with ties broken by (device_id, sensor_id) ascending.
C8_ExportPaginationStable ==
    \A p, q \in Clients :
        (Done(p, "export_lecturas") /\ res[p].kind = "ok"
           /\ Done(q, "export_lecturas") /\ res[q].kind = "ok") =>
        /\ \A i \in 1..Len(res[p].rows), j \in 1..Len(res[q].rows) :
              (PagePos(p, i) = PagePos(q, j)) <=> (PageAt(p, i) = PageAt(q, j))
        /\ \A i, j \in 1..Len(res[p].rows) :
              i < j => ExportBefore(PageAt(p, i), PageAt(p, j))

\* the width of a chart window, in minutes
WindowMinutes(bucket) == IF bucket = "hour" THEN 60 ELSE 24 * 60

\* the readings a chart request asks for
Requested(q) ==
    { l \in lecturas :
        /\ q.rango[1] <= l.fechahora /\ l.fechahora < q.rango[2]
        /\ q.dispositivoid # None => l.dispositivoid = q.dispositivoid[1]
        /\ q.sensornombre # None =>
              \E x \in sensores : /\ x.sensorid = l.sensorid
                                  /\ x.campos.nombre = q.sensornombre[1] }

\* reading l falls in the window of chart row b
InBucket(l, b, w) ==
    /\ b.bucket_start <= l.fechahora /\ l.fechahora < b.bucket_start + w
    /\ l.dispositivoid = b.dispositivoid
    /\ l.sensorid = b.sensorid

----------------------------------------------------------------------------
(* Properties of the device validation *)

\* C11: an upsertDevice whose serial or name is empty fails with a validation error and
\* returns no id (calls that lost their connection to the store aside), and no Device
\* row has an empty serial or an empty name.
C11_EmptyIdentityRejected ==
    /\ \A p \in Clients :
          (pc[p] = "done" /\ req[p].op = "create_device" /\ ~StoreLost(res[p])
             /\ (req[p].serie = "" \/ req[p].campos.nombre = "")) =>
             /\ res[p].kind = "error"
             /\ res[p].error \in {"ValidationError", "RequestValidationError"}
    /\ \A r \in dispositivos : r.serie # "" /\ r.campos.nombre # ""

----------------------------------------------------------------------------
(* Properties of the pool *)

\* the task is inside the retry loop of init_db_pool
InLoop(d) == d.pc \in {"create", "smoke", "sleep"}

\* the exceptions the except branch of init_db_pool catches
InitErrors == {"OSError", "PostgresError", "InterfaceError"}

\* C12: init_db_pool makes at most Retries attempts, sleeps Delay seconds between two
\* consecutive attempts and never after the last one, leaves the loop without an
\* exception only from an attempt whose pool creation and smoke test both succeeded,
\* and raises the error of the last attempt once Retries attempts have failed.
C12_BoundedRetry ==
    /\ [](\A t \in DbTasks :
            LET d == dbtask[t] IN
            /\ d.attempt \in 0..(Retries - 1)
            /\ d.slept = Delay * d.attempt
            /\ d.pc = "sleep" => d.attempt < Retries - 1
            /\ (d.pc = "init_raised" /\ d.exc # "RuntimeError") =>
                  d.attempt = Retries - 1 /\ d.exc \in InitErrors)
    /\ [][\A t \in DbTasks :
            LET d == dbtask[t]
                e == dbtask'[t] IN
            /\ (InLoop(d) /\ ~InLoop(e) /\ e.pc # "init_raised") =>
                  d.pc = "smoke" /\ d.ref \notin closed
            /\ (d.pc = "smoke" /\ d.ref \notin closed /\ e # d /\ InLoop(e)) =>
                  e.pc = "sleep" /\ e.exc = "PostgresError"
            /\ (InLoop(d) /\ e.pc = "init_raised") =>
                  /\ d.pc \in {"create", "smoke"}
                  /\ d.attempt = Retries - 1
                  /\ e.exc \in InitErrors
            /\ (d.pc \in {"create", "smoke"} /\ e.pc = "sleep") =>
                  e.attempt = d.attempt /\ e.slept = d.slept /\ e.exc \in InitErrors
            /\ (d.pc = "sleep" /\ e.pc = "create") =>
                  e.attempt = d.attempt + 1 /\ e.slept = d.slept + Delay]_vars

\* the startup hook has raised after Retries failed attempts and Retries - 1 sleeps
C12_Witness ==
    /\ dbtask["startup"].pc = "init_raised"
    /\ dbtask["startup"].exc \in InitErrors
    /\ dbtask["startup"].attempt = Retries - 1
    /\ dbtask["startup"].slept = Delay * (Retries - 1)

\* C13: every pool that was created is the one `pool` refers to or has been closed, so
\* that at most one pool is open at any time, and `pool` is None when init_db_pool ends
\* by raising.
C13_PoolSingleton ==
    /\ [](\A q \in pools : q = pool \/ q \in closed)
    /\ [][\A t \in DbTasks :
            (dbtask[t].pc # "init_raised" /\ dbtask'[t].pc = "init_raised") =>
               pool' = NoPool]_vars

====
